---- MODULE Spec2Model ----
(***************************************************************************)
(* Model of rnn+efficientNet/retrain.py: the train()/validate() loop, the  *)
(* best-checkpoint policy and the final save of the extractor.             *)
(*                                                                         *)
(* Abstractions.                                                           *)
(*  - A float is a record [k, n, d]: k = "fin" is the rational n/d (losses *)
(*    are >= 0, cross-entropy), k = "inf" is +infinity, k = "nan" is NaN.  *)
(*    Comparison, sum, product and quotient follow IEEE-754 on these three *)
(*    kinds; rounding is not modelled.                                     *)
(*  - A parameter group holds a version: the number of writes it has       *)
(*    received.  The groups of combined_model.parameters() are the         *)
(*    backbone weights ("effnet_w"), the replaced head effnet_model._fc    *)
(*    ("effnet_fc") and the recurrent classifier ("lstm").                 *)
(*  - The extractor's BatchNorm buffers are modelled by bn_tracked, the    *)
(*    num_batches_tracked buffer: a BatchNorm layer in training mode       *)
(*    rewrites running_mean / running_var and increments this buffer on    *)
(*    every forward pass; torch.no_grad() does not switch that off.        *)
(*  - batch_size (32 in the script) and the dataset sizes are scaled down  *)
(*    and drawn in Init; the training accuracy bookkeeping (lines 137-138, *)
(*    143) is left out, total_samples is kept.                             *)
(***************************************************************************)
EXTENDS Integers, Sequences, FiniteSets, TLC

VARIABLES
    pc,                 \* position of the script
    num_epochs,         \* train()'s num_epochs argument
    batch_size,         \* DataLoader batch_size
    train_size,         \* len(train_loader.dataset)
    val_size,           \* len(val_loader.dataset)
    epoch,              \* loop variable of line 121
    training,           \* model.training (TRUE after train(), FALSE after eval())
    grad_enabled,       \* FALSE inside validate()'s torch.no_grad() block
    params,             \* version of each parameter group
    bn_tracked,         \* extractor BatchNorm buffers (num_batches_tracked)
    grads,              \* parameter groups whose .grad is set
    graph,              \* parameter groups the last forward recorded for autograd
    opt_state,          \* Adam's per-group step counter
    best_val_loss,      \* train() local
    running_loss,       \* train() local
    total_samples,      \* train() local
    epoch_loss,         \* train() local
    remaining,          \* samples the loader being iterated has not yielded yet
    inputs_size,        \* inputs.size(0) of the current batch
    loss,               \* loss.item() of the current batch
    v_loss,             \* validate() local val_loss
    v_correct,          \* validate() local correct_predictions
    v_total,            \* validate() local total_samples
    val_loss,           \* train() local: validate()'s first result
    val_accuracy,       \* train() local: validate()'s second result
    file_best,          \* model_best.pth as written by this run (<<>>: not written)
    file_model,         \* model.pth as written by this run (<<>>: not written)
    printed,            \* console lines printed by train(), by kind
    writes,             \* number of torch.save calls, by file
    h_train,            \* history: <<loss, size>> of the training batches of this epoch
    h_val,              \* history: <<loss, matches>> of the batches of this validate()
    h_log,              \* history, one entry per finished epoch: its validation loss,
                        \* whether it wrote model_best.pth, best_val_loss at its end
    h_after_train,      \* history: the model state right after each epoch's training batches
    h_entry,            \* history: state at the entry of the current validate() call
    h_steps,            \* history: steps done on the current training batch
    h_calls             \* history: per-epoch counters of batches, optimizer steps, validations

vars == << pc, num_epochs, batch_size, train_size, val_size, epoch, training,
           grad_enabled, params, bn_tracked, grads, graph, opt_state,
           best_val_loss, running_loss, total_samples, epoch_loss, remaining,
           inputs_size, loss, v_loss, v_correct, v_total, val_loss,
           val_accuracy, file_best, file_model, printed, writes, h_train, h_val,
           h_log, h_after_train, h_entry, h_steps, h_calls >>

----------------------------------------------------------------------------
(* Bounds of the model. *)

MaxLoss == 1
MaxBatch == 2
MaxEpochs == 2

(* num_epochs=5 of the call at line 184. *)
NumEpochs == 5

----------------------------------------------------------------------------
(* Floats. *)

Fin(n) == [k |-> "fin", n |-> n, d |-> 1]
Inf == [k |-> "inf", n |-> 0, d |-> 1]
NaN == [k |-> "nan", n |-> 0, d |-> 1]

IsNaN(a) == a.k = "nan"
IsFinite(a) == a.k = "fin"

\* a < b
FLt(a, b) ==
    IF IsNaN(a) \/ IsNaN(b) THEN FALSE
    ELSE IF a.k = "inf" THEN FALSE
    ELSE IF b.k = "inf" THEN TRUE
    ELSE a.n * b.d < b.n * a.d

\* a == b
FEq(a, b) ==
    IF IsNaN(a) \/ IsNaN(b) THEN FALSE
    ELSE IF a.k = "inf" \/ b.k = "inf" THEN a.k = b.k
    ELSE a.n * b.d = b.n * a.d

\* a + b
FAdd(a, b) ==
    IF IsNaN(a) \/ IsNaN(b) THEN NaN
    ELSE IF a.k = "inf" \/ b.k = "inf" THEN Inf
    ELSE [k |-> "fin", n |-> a.n * b.d + b.n * a.d, d |-> a.d * b.d]

\* a * m, m an int
FMulInt(a, m) ==
    IF IsNaN(a) THEN NaN
    ELSE IF a.k = "inf" THEN (IF m = 0 THEN NaN ELSE Inf)
    ELSE [k |-> "fin", n |-> a.n * m, d |-> a.d]

\* a / m, m a positive int
FDivInt(a, m) ==
    IF IsNaN(a) THEN NaN
    ELSE IF a.k = "inf" THEN Inf
    ELSE [k |-> "fin", n |-> a.n, d |-> a.d * m]

\* The values criterion(outputs, labels).item() is drawn from.
Losses == {Fin(n) : n \in 0..MaxLoss} \cup {Inf, NaN}

----------------------------------------------------------------------------
(* Model state and its serialisation. *)

Groups == {"effnet_w", "effnet_fc", "lstm"}

\* combined_model.state_dict()
CombinedStateDict ==
    [effnet_w |-> params["effnet_w"], effnet_bn |-> bn_tracked,
     effnet_fc |-> params["effnet_fc"], lstm |-> params["lstm"]]

\* effnet_model.state_dict()
ExtractorStateDict ==
    [effnet_w |-> params["effnet_w"], effnet_bn |-> bn_tracked,
     effnet_fc |-> params["effnet_fc"]]

\* model.state_dict() of line 156, the content of model_best.pth
BestCheckpointExtractorOnly == ExtractorStateDict
BestCheckpoint == CombinedStateDict

\* effnet_model.state_dict() of line 187, the content of model.pth
FinalCheckpointCombined == CombinedStateDict
FinalCheckpoint == ExtractorStateDict

\* Size of the next batch a DataLoader (drop_last=False) yields.
NextBatch(left) == IF left < batch_size THEN left ELSE batch_size

\* BatchNorm buffers after extract_features ran once in the given mode
\* (model.training; line 94 runs the backbone's BatchNorm layers).
ExtractFeaturesBN(mode, bn) == IF mode THEN bn + 1 ELSE bn

\* Parameter groups CombinedModel.forward records for autograd: the extractor
\* runs under torch.no_grad(), the recurrent classifier under the ambient mode.
ForwardGraphNoGrad(enabled) == {}
ForwardGraph(enabled) == IF enabled THEN {"lstm"} ELSE {}

\* optimizer.step(): Adam skips the parameters whose .grad is None.
AdamStep(p, g) == [x \in Groups |-> IF x \in g THEN p[x] + 1 ELSE p[x]]

\* val_loss < best_val_loss of line 154
ImprovedOrTie(v, best) == FLt(v, best) \/ FEq(v, best)
ImprovedNotGe(v, best) == ~(FLt(best, v) \/ FEq(best, v))
ImprovedReversed(v, best) == FLt(best, v)
Improved(v, best) == FLt(v, best)

\* loss.item() * inputs.size(0) of lines 136 and 171
BatchContributionUnweighted(l, size) == l
BatchContribution(l, size) == FMulInt(l, size)

\* Number of TRUE entries of a vector: (predicted == labels).sum().item()
SumAll(m) == Len(m)
RECURSIVE SumTrue(_)
SumTrue(m) ==
    IF m = <<>> THEN 0
    ELSE (IF m[Len(m)] THEN 1 ELSE 0) + SumTrue(SubSeq(m, 1, Len(m) - 1))

----------------------------------------------------------------------------
(* Initial states: the script just before the call of train() at line 184. *)

InitWith(ne, bs, ts, vs) ==
    /\ pc = "loop"
    /\ num_epochs = ne
    /\ batch_size = bs
    /\ train_size = ts
    /\ val_size = vs
    /\ epoch = 0
    /\ training = TRUE
    /\ grad_enabled = TRUE
    /\ params = [x \in Groups |-> 0]
    /\ bn_tracked = 0
    /\ grads = {}
    /\ graph = {}
    /\ opt_state = [x \in Groups |-> 0]
    /\ best_val_loss = Inf
    /\ running_loss = Fin(0)
    /\ total_samples = 0
    /\ epoch_loss = Fin(0)
    /\ remaining = 0
    /\ inputs_size = 0
    /\ loss = Fin(0)
    /\ v_loss = Fin(0)
    /\ v_correct = 0
    /\ v_total = 0
    /\ val_loss = Fin(0)
    /\ val_accuracy = Fin(0)
    /\ file_best = <<>>
    /\ file_model = <<>>
    /\ printed = [train |-> 0, val |-> 0]
    /\ writes = [best |-> 0, model |-> 0]
    /\ h_train = <<>>
    /\ h_val = <<>>
    /\ h_log = <<>>
    /\ h_after_train = <<>>
    /\ h_entry = [params |-> [x \in Groups |-> 0], bn |-> 0,
                  opt |-> [x \in Groups |-> 0], best |-> Inf]
    /\ h_steps = <<>>
    /\ h_calls = [batches |-> 0, steps |-> 0, vals |-> 0]

\* The script as written: five epochs; the training set ends with a smaller
\* batch, the validation set is one batch.
Init == \E vs \in 1..MaxBatch : InitWith(NumEpochs, MaxBatch, MaxBatch + 1, vs)

\* train() called with any epoch count and any pair of datasets of one or two
\* batches, the second one smaller.
InitTrain ==
    \E ne \in 1..MaxEpochs, ts \in 1..(MaxBatch + 1), vs \in 1..(MaxBatch + 1) :
        InitWith(ne, MaxBatch, ts, vs)

cfg == << num_epochs, batch_size, train_size, val_size >>
model == << params, bn_tracked, grads, graph, opt_state >>
val_locals == << v_loss, v_correct, v_total >>
results == << val_loss, val_accuracy >>
disk == << file_best, file_model, writes >>

----------------------------------------------------------------------------
(* train(), lines 119-156. *)

\* lines 121-125: next iteration of the epoch loop
EpochStart ==
    /\ pc = "loop"
    /\ epoch < num_epochs
    /\ training' = TRUE
    /\ running_loss' = Fin(0)
    /\ total_samples' = 0
    /\ remaining' = train_size
    /\ h_train' = <<>>
    /\ h_calls' = [batches |-> 0, steps |-> 0, vals |-> 0]
    /\ pc' = "train_iter"
    /\ UNCHANGED << cfg, epoch, grad_enabled, model, best_val_loss, epoch_loss,
                    inputs_size, loss, val_locals, results, disk, printed, h_val,
                    h_log, h_after_train, h_entry, h_steps >>

\* line 121: range(num_epochs) is exhausted, train() returns
TrainReturn ==
    /\ pc = "loop"
    /\ epoch >= num_epochs
    /\ pc' = "save_model"
    /\ UNCHANGED << cfg, epoch, training, grad_enabled, model, best_val_loss,
                    running_loss, total_samples, epoch_loss, remaining, inputs_size,
                    loss, val_locals, results, disk, printed, h_train, h_val,
                    h_log, h_after_train, h_entry, h_steps, h_calls >>

\* lines 127-128: the loader yields the next training batch
TrainFetch ==
    /\ pc = "train_iter"
    /\ remaining > 0
    /\ inputs_size' = NextBatch(remaining)
    /\ remaining' = remaining - NextBatch(remaining)
    /\ h_steps' = <<>>
    /\ h_calls' = [h_calls EXCEPT !.batches = @ + 1]
    /\ pc' = "zero_grad"
    /\ UNCHANGED << cfg, epoch, training, grad_enabled, model, best_val_loss,
                    running_loss, total_samples, epoch_loss, loss, val_locals,
                    results, disk, printed, h_train, h_val, h_log,
                    h_after_train, h_entry >>

\* line 127: the training loader is exhausted
TrainExhausted ==
    /\ pc = "train_iter"
    /\ remaining = 0
    /\ pc' = "epoch_stats"
    /\ UNCHANGED << cfg, epoch, training, grad_enabled, model, best_val_loss,
                    running_loss, total_samples, epoch_loss, remaining, inputs_size,
                    loss, val_locals, results, disk, printed, h_train, h_val,
                    h_log, h_after_train, h_entry, h_steps, h_calls >>

\* line 129: optimizer.zero_grad()
ZeroGrad ==
    /\ pc = "zero_grad"
    /\ grads' = {}
    /\ h_steps' = Append(h_steps, "zero_grad")
    /\ pc' = "forward"
    /\ UNCHANGED << cfg, epoch, training, grad_enabled, params, bn_tracked, graph,
                    opt_state, best_val_loss, running_loss, total_samples,
                    epoch_loss, remaining, inputs_size, loss, val_locals, results,
                    disk, printed, h_train, h_val, h_log, h_after_train,
                    h_entry, h_calls >>

\* line 130: outputs = model(inputs), CombinedModel.forward of lines 92-99
Forward ==
    /\ pc = "forward"
    /\ graph' = ForwardGraph(grad_enabled)
    /\ bn_tracked' = ExtractFeaturesBN(training, bn_tracked)
    /\ h_steps' = Append(h_steps, "forward")
    /\ pc' = "criterion"
    /\ UNCHANGED << cfg, epoch, training, grad_enabled, params, grads, opt_state,
                    best_val_loss, running_loss, total_samples, epoch_loss,
                    remaining, inputs_size, loss, val_locals, results, disk,
                    printed, h_train, h_val, h_log, h_after_train, h_entry,
                    h_calls >>

\* line 131: loss = criterion(outputs, labels)
Criterion ==
    /\ pc = "criterion"
    /\ \E l \in Losses : loss' = l
    /\ h_steps' = Append(h_steps, "loss")
    /\ pc' = "backward"
    /\ UNCHANGED << cfg, epoch, training, grad_enabled, model, best_val_loss,
                    running_loss, total_samples, epoch_loss, remaining, inputs_size,
                    val_locals, results, disk, printed, h_train, h_val, h_log,
                    h_after_train, h_entry, h_calls >>

\* line 132: loss.backward()
Backward ==
    /\ pc = "backward"
    /\ grads' = grads \cup graph
    /\ h_steps' = Append(h_steps, "backward")
    /\ pc' = "step"
    /\ UNCHANGED << cfg, epoch, training, grad_enabled, params, bn_tracked, graph,
                    opt_state, best_val_loss, running_loss, total_samples,
                    epoch_loss, remaining, inputs_size, loss, val_locals, results,
                    disk, printed, h_train, h_val, h_log, h_after_train,
                    h_entry, h_calls >>

\* line 133: optimizer.step()
Step ==
    /\ pc = "step"
    /\ params' = AdamStep(params, grads)
    /\ opt_state' = AdamStep(opt_state, grads)
    /\ h_steps' = Append(h_steps, "step")
    /\ h_calls' = [h_calls EXCEPT !.steps = @ + 1]
    /\ pc' = "stats"
    /\ UNCHANGED << cfg, epoch, training, grad_enabled, bn_tracked, grads, graph,
                    best_val_loss, running_loss, total_samples, epoch_loss,
                    remaining, inputs_size, loss, val_locals, results, disk,
                    printed, h_train, h_val, h_log, h_after_train, h_entry >>

\* lines 136-139: running_loss and total_samples
Stats ==
    /\ pc = "stats"
    /\ running_loss' = FAdd(running_loss, BatchContribution(loss, inputs_size))
    /\ total_samples' = total_samples + inputs_size
    /\ h_train' = Append(h_train, << loss, inputs_size >>)
    /\ h_steps' = Append(h_steps, "stats")
    /\ pc' = "train_iter"
    /\ UNCHANGED << cfg, epoch, training, grad_enabled, model, best_val_loss,
                    epoch_loss, remaining, inputs_size, loss, val_locals, results,
                    disk, printed, h_val, h_log, h_after_train, h_entry,
                    h_calls >>

\* line 142: epoch_loss
EpochStats ==
    /\ pc = "epoch_stats"
    /\ epoch_loss' = FDivInt(running_loss, train_size)
    /\ h_after_train' = Append(h_after_train, CombinedStateDict)
    /\ pc' = "print_train"
    /\ UNCHANGED << cfg, epoch, training, grad_enabled, model, best_val_loss,
                    running_loss, total_samples, remaining, inputs_size, loss,
                    val_locals, results, disk, printed, h_train, h_val, h_log,
                    h_entry, h_steps, h_calls >>

\* lines 144-146: the train line.  running_loss, total_samples, epoch_loss and
\* loss are not read again before lines 123-125, 131 and 142 assign them: the
\* model drops their values here.
PrintTrain ==
    /\ pc = "print_train"
    /\ printed' = [printed EXCEPT !.train = @ + 1]
    /\ running_loss' = Fin(0)
    /\ total_samples' = 0
    /\ epoch_loss' = Fin(0)
    /\ loss' = Fin(0)
    /\ inputs_size' = 0
    /\ h_train' = <<>>
    /\ h_steps' = <<>>
    /\ pc' = "validate"
    /\ UNCHANGED << cfg, epoch, training, grad_enabled, model, best_val_loss,
                    remaining, val_locals, results, disk, h_val, h_log,
                    h_after_train, h_entry, h_calls >>

----------------------------------------------------------------------------
(* validate(), lines 158-179, called at line 149. *)

\* model.eval() of line 159
EvalModeMissing(mode) == mode
EvalMode(mode) == FALSE

\* lines 149, 159-164: the call, model.eval(), the locals, torch.no_grad()
ValidateEntry ==
    /\ pc = "validate"
    /\ training' = EvalMode(training)
    /\ v_loss' = Fin(0)
    /\ v_correct' = 0
    /\ v_total' = 0
    /\ grad_enabled' = FALSE
    /\ remaining' = val_size
    /\ h_entry' = [params |-> params, bn |-> bn_tracked, opt |-> opt_state,
                   best |-> best_val_loss]
    /\ h_val' = <<>>
    /\ h_calls' = [h_calls EXCEPT !.vals = @ + 1]
    /\ pc' = "val_iter"
    /\ UNCHANGED << cfg, epoch, model, best_val_loss, running_loss, total_samples,
                    epoch_loss, inputs_size, loss, results, disk, printed, h_train,
                    h_log, h_after_train, h_steps >>

\* lines 165-166: the loader yields the next validation batch
ValFetch ==
    /\ pc = "val_iter"
    /\ remaining > 0
    /\ inputs_size' = NextBatch(remaining)
    /\ remaining' = remaining - NextBatch(remaining)
    /\ pc' = "val_forward"
    /\ UNCHANGED << cfg, epoch, training, grad_enabled, model, best_val_loss,
                    running_loss, total_samples, epoch_loss, loss, val_locals,
                    results, disk, printed, h_train, h_val, h_log,
                    h_after_train, h_entry, h_steps, h_calls >>

\* line 165: the validation loader is exhausted
ValExhausted ==
    /\ pc = "val_iter"
    /\ remaining = 0
    /\ pc' = "val_return"
    /\ UNCHANGED << cfg, epoch, training, grad_enabled, model, best_val_loss,
                    running_loss, total_samples, epoch_loss, remaining, inputs_size,
                    loss, val_locals, results, disk, printed, h_train, h_val,
                    h_log, h_after_train, h_entry, h_steps, h_calls >>

\* line 167: outputs = model(inputs)
ValForward ==
    /\ pc = "val_forward"
    /\ graph' = ForwardGraph(grad_enabled)
    /\ bn_tracked' = ExtractFeaturesBN(training, bn_tracked)
    /\ pc' = "val_criterion"
    /\ UNCHANGED << cfg, epoch, training, grad_enabled, params, grads, opt_state,
                    best_val_loss, running_loss, total_samples, epoch_loss,
                    remaining, inputs_size, loss, val_locals, results, disk,
                    printed, h_train, h_val, h_log, h_after_train, h_entry,
                    h_steps, h_calls >>

\* line 168: loss = criterion(outputs, labels)
ValCriterion ==
    /\ pc = "val_criterion"
    /\ \E l \in Losses : loss' = l
    /\ pc' = "val_stats"
    /\ UNCHANGED << cfg, epoch, training, grad_enabled, model, best_val_loss,
                    running_loss, total_samples, epoch_loss, remaining, inputs_size,
                    val_locals, results, disk, printed, h_train, h_val, h_log,
                    h_after_train, h_entry, h_steps, h_calls >>

\* lines 171-174: val_loss, correct_predictions, total_samples; m is the vector
\* predicted == labels of the batch
ValStats ==
    /\ pc = "val_stats"
    /\ \E m \in [1..inputs_size -> BOOLEAN] :
          /\ v_correct' = v_correct + SumTrue(m)
          /\ h_val' = Append(h_val, << loss, m >>)
    /\ v_loss' = FAdd(v_loss, BatchContribution(loss, inputs_size))
    /\ v_total' = v_total + inputs_size
    /\ pc' = "val_iter"
    /\ UNCHANGED << cfg, epoch, training, grad_enabled, model, best_val_loss,
                    running_loss, total_samples, epoch_loss, remaining, inputs_size,
                    loss, results, disk, printed, h_train, h_log,
                    h_after_train, h_entry, h_steps, h_calls >>

\* lines 177-179 and the assignment of line 149; validate()'s frame is dropped
ValReturn ==
    /\ pc = "val_return"
    /\ val_loss' = FDivInt(v_loss, val_size)
    /\ val_accuracy' = FDivInt(Fin(v_correct), v_total)
    /\ grad_enabled' = TRUE
    /\ v_loss' = Fin(0)
    /\ v_correct' = 0
    /\ v_total' = 0
    /\ loss' = Fin(0)
    /\ inputs_size' = 0
    /\ pc' = "print_val"
    /\ UNCHANGED << cfg, epoch, training, model, best_val_loss, running_loss,
                    total_samples, epoch_loss, remaining, disk, printed, h_train,
                    h_val, h_log, h_after_train, h_entry, h_steps, h_calls >>

\* lines 150-151: the validation line.  val_accuracy is not read again before
\* line 149 assigns it: the model drops its value here.
PrintVal ==
    /\ pc = "print_val"
    /\ printed' = [printed EXCEPT !.val = @ + 1]
    /\ val_accuracy' = Fin(0)
    /\ h_val' = <<>>
    /\ pc' = "compare"
    /\ UNCHANGED << cfg, epoch, training, grad_enabled, model, best_val_loss,
                    running_loss, total_samples, epoch_loss, remaining, inputs_size,
                    loss, val_locals, val_loss, disk, h_train, h_log,
                    h_after_train, h_entry, h_steps, h_calls >>

\* lines 154-156: a new best, the combined model goes to model_best.pth
SaveBest ==
    /\ pc = "compare"
    /\ Improved(val_loss, best_val_loss)
    /\ best_val_loss' = val_loss
    /\ file_best' = << BestCheckpoint >>
    /\ writes' = [writes EXCEPT !.best = @ + 1]
    /\ epoch' = epoch + 1
    /\ h_log' = Append(h_log, [loss |-> val_loss, wrote |-> TRUE, best |-> val_loss])
    /\ pc' = "loop"
    /\ UNCHANGED << cfg, training, grad_enabled, model, running_loss,
                    total_samples, epoch_loss, remaining, inputs_size, loss,
                    val_locals, results, file_model, printed, h_train, h_val,
                    h_after_train, h_entry, h_steps, h_calls >>

\* line 154: the comparison is false, nothing is written
SkipSave ==
    /\ pc = "compare"
    /\ ~Improved(val_loss, best_val_loss)
    /\ epoch' = epoch + 1
    /\ h_log' = Append(h_log, [loss |-> val_loss, wrote |-> FALSE,
                                best |-> best_val_loss])
    /\ pc' = "loop"
    /\ UNCHANGED << cfg, training, grad_enabled, model, best_val_loss,
                    running_loss, total_samples, epoch_loss, remaining, inputs_size,
                    loss, val_locals, results, disk, printed, h_train, h_val,
                    h_after_train, h_entry, h_steps, h_calls >>

----------------------------------------------------------------------------
(* The script after train(), line 187. *)

SaveModel ==
    /\ pc = "save_model"
    /\ file_model' = << FinalCheckpoint >>
    /\ writes' = [writes EXCEPT !.model = @ + 1]
    /\ pc' = "done"
    /\ UNCHANGED << cfg, epoch, training, grad_enabled, model, best_val_loss,
                    running_loss, total_samples, epoch_loss, remaining, inputs_size,
                    loss, val_locals, results, file_best, printed, h_train, h_val,
                    h_log, h_after_train, h_entry, h_steps, h_calls >>

Next ==
    \/ EpochStart
    \/ TrainReturn
    \/ TrainFetch
    \/ TrainExhausted
    \/ ZeroGrad
    \/ Forward
    \/ Criterion
    \/ Backward
    \/ Step
    \/ Stats
    \/ EpochStats
    \/ PrintTrain
    \/ ValidateEntry
    \/ ValFetch
    \/ ValExhausted
    \/ ValForward
    \/ ValCriterion
    \/ ValStats
    \/ ValReturn
    \/ PrintVal
    \/ SaveBest
    \/ SkipSave
    \/ SaveModel

Spec == Init /\ [][Next]_vars

SpecTrain == InitTrain /\ [][Next]_vars

\* The script is one thread that runs to completion.
FairSpec == Init /\ [][Next]_vars /\ WF_vars(Next)

----------------------------------------------------------------------------
(* Properties. *)

Epochs == 1..Len(h_log)

\* a <= b
FLe(a, b) == FLt(a, b) \/ FEq(a, b)

\* C1 as stated: model_best.pth is written at the end of epoch e if and only
\* if epoch e's validation loss is strictly less than the validation loss of
\* every earlier epoch of the run (so the first epoch always writes).
C1_AsStated ==
    \A e \in Epochs :
        h_log[e].wrote <=> (\A j \in 1..(e - 1) : FLt(h_log[e].loss, h_log[j].loss))

\* C1 amended: model_best.pth is written at the end of epoch e if and only if
\* epoch e's validation loss is finite (neither NaN nor infinite) and strictly
\* less than the validation loss of every earlier epoch whose validation loss
\* is not NaN; a tie with the best so far does not write.
C1_BestWriteIffStrictlyLowerFinite ==
    \A e \in Epochs :
        h_log[e].wrote <=>
            /\ IsFinite(h_log[e].loss)
            /\ \A j \in 1..(e - 1) :
                  ~IsNaN(h_log[j].loss) => FLt(h_log[e].loss, h_log[j].loss)

\* An epoch that ties the best so far and does not write, after an epoch that
\* wrote and before one that writes again.
C1_Witness ==
    /\ Len(h_log) >= 3
    /\ h_log[1].wrote
    /\ FEq(h_log[2].loss, h_log[1].loss)
    /\ ~h_log[2].wrote
    /\ h_log[3].wrote

\* best_val_loss before epoch e
BestBefore(e) == IF e = 1 THEN Inf ELSE h_log[e - 1].best

\* C8: an epoch whose validation loss is NaN never writes model_best.pth and
\* leaves best_val_loss unchanged, the run goes on to the next epoch and to its
\* end, and a later epoch with a finite validation loss lower than every finite
\* loss seen so far still writes the checkpoint.
C8_NaNEpochSkipsAndRunGoesOn ==
    /\ \A e \in Epochs :
          IsNaN(h_log[e].loss) =>
              /\ ~h_log[e].wrote
              /\ h_log[e].best = BestBefore(e)
    /\ \A e \in Epochs :
          ( /\ IsFinite(h_log[e].loss)
            /\ \A j \in 1..(e - 1) :
                  IsFinite(h_log[j].loss) => FLt(h_log[e].loss, h_log[j].loss) )
          => ( h_log[e].wrote /\ h_log[e].best = h_log[e].loss )
    /\ (pc = "compare" /\ IsNaN(val_loss)) => printed.val = epoch + 1
    /\ (pc = "loop" /\ epoch < num_epochs /\ epoch > 0) => Len(h_log) = epoch
    /\ pc = "done" => Len(h_log) = num_epochs

\* A finished run in which a NaN epoch lies between two epochs that wrote.
C8_Witness ==
    /\ pc = "done"
    /\ h_log[1].wrote
    /\ IsNaN(h_log[2].loss)
    /\ h_log[3].wrote
    /\ IsNaN(h_log[4].loss)

\* x is the minimum of the validation losses of the finished epochs
IsMinOfLosses(x) ==
    IF h_log = <<>> THEN x = Inf
    ELSE /\ \E e \in Epochs : FEq(h_log[e].loss, x)
         /\ \A e \in Epochs : FLe(x, h_log[e].loss)

\* e is the earliest epoch whose validation loss is the minimum
IsEarliestMin(e) ==
    /\ \A j \in Epochs : FLe(h_log[e].loss, h_log[j].loss)
    /\ \A j \in 1..(e - 1) : ~FEq(h_log[j].loss, h_log[e].loss)

\* C10 as stated: best_val_loss is the minimum of the validation losses of the
\* epochs finished so far (infinity before the first) and never increases; at
\* the end model_best.pth holds the combined model as it was right after the
\* training batches of the earliest epoch that attained the minimum.
C10_AsStated ==
    /\ pc = "loop" => IsMinOfLosses(best_val_loss)
    /\ \A e \in Epochs : ~FLt(BestBefore(e), h_log[e].best)
    /\ pc = "done" =>
          \E e \in Epochs : IsEarliestMin(e) /\ file_best = << h_after_train[e] >>

\* the validation losses that took part in a comparison that could succeed
Comparable == { e \in Epochs : ~IsNaN(h_log[e].loss) }

\* x is the minimum of +infinity and the non-NaN validation losses
IsMinOfComparable(x) ==
    /\ ~IsNaN(x)
    /\ x.k = "inf" \/ \E e \in Comparable : h_log[e].loss = x
    /\ \A e \in Comparable : FLe(x, h_log[e].loss)

\* e is the earliest epoch whose validation loss is the finite minimum
IsEarliestFiniteMin(e) ==
    /\ IsFinite(h_log[e].loss)
    /\ \A j \in Comparable : FLe(h_log[e].loss, h_log[j].loss)
    /\ \A j \in 1..(e - 1) : ~FEq(h_log[j].loss, h_log[e].loss)

\* C10 amended: best_val_loss is the minimum of +infinity and the non-NaN
\* validation losses of the epochs finished so far, and never increases; at the
\* end, if some epoch had a finite validation loss, model_best.pth holds the
\* combined model as it was right after the training batches of the earliest
\* epoch that attained the minimum (not the last epoch's, unless that epoch is
\* the last); otherwise the run has not written model_best.pth.
C10_BestIsMinOfComparable ==
    /\ pc = "loop" => IsMinOfComparable(best_val_loss)
    /\ \A e \in Epochs : ~FLt(BestBefore(e), h_log[e].best)
    /\ pc = "done" =>
          IF \E e \in Epochs : IsFinite(h_log[e].loss)
          THEN \E e \in Epochs :
                  /\ IsEarliestFiniteMin(e)
                  /\ file_best = << h_after_train[e] >>
                  /\ e < Len(h_log) => file_best # << h_after_train[Len(h_log)] >>
          ELSE file_best = <<>> /\ writes.best = 0

\* A finished run whose minimum was attained first in epoch 2 and again in
\* epoch 4: the checkpoint is epoch 2's.
C10_Witness ==
    /\ pc = "done"
    /\ IsEarliestFiniteMin(2)
    /\ FEq(h_log[4].loss, h_log[2].loss)
    /\ file_best = << h_after_train[2] >>

ValidatePcs == {"val_iter", "val_forward", "val_criterion", "val_stats", "val_return"}

BatchPcs == {"zero_grad", "forward", "criterion", "backward", "step", "stats"}

\* C3: validate() makes no parameter updates: the model's parameters and
\* buffers, the optimizer state and best_val_loss are, throughout validate() and
\* when it has returned, what they were at the call; every validation forward
\* pass runs in evaluation mode, and the model is back in training mode for the
\* training batches of the next epoch.
C3_ValidateChangesNothing ==
    /\ pc \in ValidatePcs \cup {"print_val"} =>
          /\ params = h_entry.params
          /\ bn_tracked = h_entry.bn
          /\ opt_state = h_entry.opt
          /\ best_val_loss = h_entry.best
    /\ pc \in ValidatePcs => ~training /\ ~grad_enabled
    /\ pc \in BatchPcs \cup {"train_iter"} => training /\ grad_enabled

\* validate() has returned in the second epoch, the model having been trained
\* and a best loss recorded before the call.
C3_Witness ==
    /\ pc = "print_val"
    /\ epoch = 1
    /\ h_entry.params["lstm"] > 0
    /\ h_entry.bn > 0
    /\ IsFinite(h_entry.best)

\* C4: the extractor's backbone is never updated during training: no step of
\* train() changes any backbone state, so model.pth receives the extractor
\* state that was in place when train() was called.
C4_AsStated ==
    /\ params["effnet_w"] = 0
    /\ bn_tracked = 0
    /\ file_model # <<>> =>
          file_model[1] = [effnet_w |-> 0, effnet_bn |-> 0, effnet_fc |-> 0]

\* number of batches of the training loader
NumTrainBatches == (train_size + batch_size - 1) \div batch_size

StepOrder == << "zero_grad", "forward", "loss", "backward", "step", "stats" >>

\* C9: the loop ends after exactly five epochs; every training batch is
\* processed once, in the order zero-grad, forward, loss, backward, optimizer
\* step, statistics, with exactly one optimizer step per batch and no other
\* writer of the parameters; validation runs exactly once per epoch, after the
\* last training batch and before the checkpoint comparison.
C9_FiveEpochsOneStepPerBatch ==
    /\ [](/\ epoch <= NumEpochs
          /\ pc \in {"save_model", "done"} => epoch = NumEpochs /\ Len(h_log) = NumEpochs
          /\ h_steps = SubSeq(StepOrder, 1, Len(h_steps))
          /\ (pc = "train_iter" /\ h_calls.batches > 0) => h_steps = StepOrder
          /\ pc = "train_iter" =>
                /\ h_calls.steps = h_calls.batches
                /\ total_samples + remaining = train_size
          /\ pc \in {"epoch_stats", "print_train", "validate"} \cup ValidatePcs
                    \cup {"print_val", "compare"} =>
                /\ h_calls.batches = NumTrainBatches
                /\ h_calls.steps = NumTrainBatches
          /\ pc \in BatchPcs \cup {"train_iter", "epoch_stats", "print_train", "validate"} =>
                h_calls.vals = 0
          /\ pc \in ValidatePcs \cup {"print_val", "compare"} => h_calls.vals = 1
          /\ pc = "done" => params["lstm"] = NumEpochs * NumTrainBatches)
    /\ [][params' # params =>
             /\ pc = "step"
             /\ params' = [params EXCEPT !["lstm"] = @ + 1]]_vars
    /\ [][pc = "step" => params' # params]_vars
    /\ <>(pc = "done")

\* The second, smaller training batch of the last epoch has been processed.
C9_Witness ==
    /\ pc = "train_iter"
    /\ epoch = NumEpochs - 1
    /\ h_calls.batches = 2
    /\ h_steps = StepOrder
    /\ inputs_size < batch_size

\* Sum over batches of loss x batch size, h a sequence of <<loss, size>>.
RECURSIVE WeightedSum(_)
WeightedSum(h) ==
    IF h = <<>> THEN Fin(0)
    ELSE FAdd(FMulInt(Head(h)[1], Head(h)[2]), WeightedSum(Tail(h)))

\* C5: in every epoch and for every split of the data into batches, a smaller
\* last batch included, epoch_loss is the sum over the batches of batch loss x
\* batch size divided by the dataset size, and total_samples is the dataset
\* size; the same holds for the average loss validate() returns.
C5_EpochLossIsWeightedAverage ==
    /\ pc = "print_train" =>
          /\ epoch_loss = FDivInt(WeightedSum(h_train), train_size)
          /\ total_samples = train_size
          /\ Len(h_train) = NumTrainBatches
    /\ pc = "val_return" => v_total = val_size
    /\ pc = "print_val" =>
          val_loss = FDivInt(WeightedSum([i \in 1..Len(h_val) |->
                                             << h_val[i][1], Len(h_val[i][2]) >>]),
                             val_size)

\* The second epoch's statistics, over a full batch and a smaller one with
\* different finite losses.
C5_Witness ==
    /\ pc = "print_train"
    /\ epoch = 1
    /\ Len(h_train) = 2
    /\ h_train[2][2] < h_train[1][2]
    /\ IsFinite(h_train[1][1]) /\ IsFinite(h_train[2][1])
    /\ h_train[1][1] # h_train[2][1]
    /\ epoch_loss.n > 0

\* the samples validate() has seen whose prediction equals the label
Hits == { bi \in (1..Len(h_val)) \X (1..batch_size) :
             bi[2] <= Len(h_val[bi[1]][2]) /\ h_val[bi[1]][2][bi[2]] }

\* the samples validate() has seen
Seen == { bi \in (1..Len(h_val)) \X (1..batch_size) : bi[2] <= Len(h_val[bi[1]][2]) }

OneEpochFinite == num_epochs = 1 /\ Len(h_log) = 1 /\ IsFinite(h_log[1].loss)

\* the checkpoint files the run has written
FilesWritten ==
    (IF file_best # <<>> THEN {"model_best.pth"} ELSE {})
        \cup (IF file_model # <<>> THEN {"model.pth"} ELSE {})

\* C7 as stated: a run of one epoch over non-empty sets with finite losses
\* completes, prints one train line and one validation line, and the run
\* writes exactly one checkpoint file.
C7_AsStated ==
    (pc = "done" /\ OneEpochFinite) =>
        /\ printed = [train |-> 1, val |-> 1]
        /\ Cardinality(FilesWritten) = 1
        /\ writes.best + writes.model = 1

\* C7 amended: a run of one epoch over non-empty sets with finite losses
\* completes and prints one train line and one validation line; train() writes
\* exactly one checkpoint file, model_best.pth, once, and the run as a whole
\* writes two, because model.pth is written after the loop.
C7_OneEpochLoopWritesBestOnce ==
    /\ (pc \in {"loop", "save_model"} /\ OneEpochFinite) =>
          /\ printed = [train |-> 1, val |-> 1]
          /\ FilesWritten = {"model_best.pth"}
          /\ writes = [best |-> 1, model |-> 0]
          /\ file_best = << h_after_train[1] >>
    /\ (pc = "done" /\ OneEpochFinite) =>
          /\ printed = [train |-> 1, val |-> 1]
          /\ FilesWritten = {"model_best.pth", "model.pth"}
          /\ writes = [best |-> 1, model |-> 1]

\* The end of a one-epoch run with finite losses over two training batches.
C7_Witness ==
    /\ pc = "done"
    /\ OneEpochFinite
    /\ train_size > batch_size
    /\ params["lstm"] = 2

====
